---- MODULE Spec2Model ----
(***************************************************************************)
(* State-machine model of generate_large_csv.py: the row generator         *)
(* generate_large_csv(filename, num_rows) and the command line entry main. *)
(*                                                                         *)
(* Text is a sequence of one-character strings, so that formatting,        *)
(* quoting and parsing are computed character by character.                *)
(*                                                                         *)
(* Two specifications share the actions of generate_large_csv:             *)
(*   Spec      direct calls generate_large_csv(Dest, N), N in 0..MaxRows,  *)
(*             process after process on the same disk; the text of the     *)
(*             file is kept character by character (full = TRUE);          *)
(*   SpecMain  one run of main for each one-argument command line of Args, *)
(*   SpecDefault  the run of main without argument; both with the          *)
(*             program's own thresholds.  The file is kept as its number   *)
(*             of rows only (full = FALSE), as the runs write up to a      *)
(*             million rows; Spec checks that this number is the number of *)
(*             line terminators of the text.                               *)
(***************************************************************************)
EXTENDS Integers, Sequences, FiniteSets, TLC

(***************************************************************************)
(* Bounds of the model.                                                    *)
(***************************************************************************)
\* Largest num_rows of a direct call in Spec.
MaxRows == 3
\* Number of states of the random generator (seeds 0..MaxSeed-1).
MaxSeed == 31

(***************************************************************************)
(* Program constants.                                                      *)
(***************************************************************************)
SalaryMin == 45000
SalaryMax == 150000
AgeMin == 22
AgeMax == 65
StartYear == 2015
\* (a wider range, as a mutant of MaxRandomDays)
MaxRandomDaysWide == 365 * 8 + 2

\* random.randint(0, 365 * 8)
MaxRandomDays == 365 * 8
\* round(random.uniform(3.0, 5.0), 1), in tenths
PerformanceMin10 == 30
PerformanceMax10 == 50
EmailSuffixMin == 1
EmailSuffixMax == 999
ImpressionsMin == 1000
ImpressionsMax == 1000000
\* round(random.uniform(10.50, 25000.75), 2), in hundredths
RevenueMin100 == 1050
RevenueMax100 == 2500075
\* round(random.uniform(0.1, 8.5), 2), in hundredths
CtrMin100 == 10
CtrMax100 == 850
\* round(random.uniform(0.5, 15.0), 2), in hundredths
ConversionMin100 == 50
ConversionMax100 == 1500
\* if i % 25000 == 0
ProgressEvery == 25000
\* (num_rows * 200) // 1024 // 1024
BytesPerRow == 200
\* if num_rows < 1000
MinRows == 1000
\* if num_rows >= 1000000
MegaRows == 1000000
\* the three default generations of main
DefaultRows1 == 10000
DefaultRows2 == 100000
DefaultRows3 == 1000000

(***************************************************************************)
(* The value domains of generate_large_csv.                                *)
(***************************************************************************)
departments ==
  << <<"E","n","g","i","n","e","e","r","i","n","g">>, <<"M","a","r","k","e","t","i","n","g">>, <<"S","a","l","e","s">>, <<"H","R">>, <<"F","i","n","a","n","c","e">>, <<"I","T">>,
     <<"O","p","e","r","a","t","i","o","n","s">>, <<"L","e","g","a","l">>, <<"R","&","D">>, <<"C","u","s","t","o","m","e","r"," ","S","e","r","v","i","c","e">> >>

locations ==
  << <<"N","e","w"," ","Y","o","r","k">>, <<"S","a","n"," ","F","r","a","n","c","i","s","c","o">>, <<"C","h","i","c","a","g","o">>, <<"L","o","s"," ","A","n","g","e","l","e","s">>, <<"B","o","s","t","o","n">>,
     <<"S","e","a","t","t","l","e">>, <<"A","u","s","t","i","n">>, <<"M","i","a","m","i">>, <<"D","e","n","v","e","r">>, <<"P","o","r","t","l","a","n","d">> >>

first_names ==
  << <<"J","o","h","n">>, <<"S","a","r","a","h">>, <<"M","i","c","h","a","e","l">>, <<"E","m","i","l","y">>, <<"R","o","b","e","r","t">>, <<"L","i","s","a">>,
     <<"D","a","v","i","d">>, <<"J","e","n","n","i","f","e","r">>, <<"W","i","l","l","i","a","m">>, <<"A","m","a","n","d","a">>, <<"C","h","r","i","s","t","o","p","h","e","r">>,
     <<"M","i","c","h","e","l","l","e">>, <<"D","a","n","i","e","l">>, <<"P","a","t","r","i","c","i","a">>, <<"J","a","m","e","s">>, <<"L","i","n","d","a">>, <<"M","a","r","k">>,
     <<"B","a","r","b","a","r","a">>, <<"S","t","e","v","e","n">>, <<"S","u","s","a","n">>, <<"K","e","v","i","n">>, <<"J","e","s","s","i","c","a">>, <<"B","r","i","a","n">>,
     <<"A","s","h","l","e","y">>, <<"J","a","s","o","n">>, <<"S","t","e","p","h","a","n","i","e">>, <<"R","y","a","n">>, <<"N","i","c","o","l","e">>, <<"A","n","d","r","e","w">>,
     <<"R","a","c","h","e","l">> >>

last_names ==
  << <<"S","m","i","t","h">>, <<"J","o","h","n","s","o","n">>, <<"C","h","e","n">>, <<"D","a","v","i","s">>, <<"W","i","l","s","o","n">>, <<"A","n","d","e","r","s","o","n">>,
     <<"M","a","r","t","i","n","e","z">>, <<"T","a","y","l","o","r">>, <<"B","r","o","w","n">>, <<"J","o","n","e","s">>, <<"L","e","e">>, <<"G","a","r","c","i","a">>,
     <<"R","o","d","r","i","g","u","e","z">>, <<"M","i","l","l","e","r">>, <<"H","e","r","n","a","n","d","e","z">>, <<"L","o","p","e","z">>, <<"G","o","n","z","a","l","e","z">>,
     <<"T","h","o","m","a","s">>, <<"J","a","c","k","s","o","n">>, <<"W","h","i","t","e">>, <<"H","a","r","r","i","s">>, <<"M","a","r","t","i","n">>, <<"T","h","o","m","p","s","o","n">>,
     <<"M","o","o","r","e">>, <<"Y","o","u","n","g">>, <<"A","l","l","e","n">>, <<"K","i","n","g">>, <<"W","r","i","g","h","t">>, <<"S","c","o","t","t">>,
     <<"G","r","e","e","n">> >>

campaigns ==
  << <<"G","o","o","g","l","e"," ","A","d","s">>, <<"F","a","c","e","b","o","o","k"," ","A","d","s">>, <<"I","n","s","t","a","g","r","a","m"," ","A","d","s">>, <<"L","i","n","k","e","d","I","n"," ","A","d","s">>,
     <<"T","w","i","t","t","e","r"," ","A","d","s">>, <<"T","i","k","T","o","k"," ","A","d","s">>, <<"E","m","a","i","l"," ","C","a","m","p","a","i","g","n">>, <<"D","i","s","p","l","a","y"," ","A","d","s">>,
     <<"Y","o","u","T","u","b","e"," ","A","d","s">>, <<"P","i","n","t","e","r","e","s","t"," ","A","d","s">> >>

actives == << <<"t","r","u","e">>, <<"f","a","l","s","e">> >>

Header ==
  << <<"I","D">>, <<"N","a","m","e">>, <<"D","e","p","a","r","t","m","e","n","t">>, <<"S","a","l","a","r","y">>, <<"A","g","e">>, <<"S","t","a","r","t"," ","D","a","t","e">>,
     <<"P","e","r","f","o","r","m","a","n","c","e"," ","S","c","o","r","e">>, <<"L","o","c","a","t","i","o","n">>, <<"E","m","a","i","l">>, <<"A","c","t","i","v","e">>,
     <<"C","a","m","p","a","i","g","n">>, <<"I","m","p","r","e","s","s","i","o","n","s">>, <<"R","e","v","e","n","u","e">>, <<"C","T","R">>,
     <<"C","o","n","v","e","r","s","i","o","n"," ","R","a","t","e">> >>

(***************************************************************************)
(* Text: str(), repr() of a rounded float, str.lower(), strftime.          *)
(***************************************************************************)
Digits == <<"0","1","2","3","4","5","6","7","8","9">>

Digit(d) == Digits[d + 1]

RECURSIVE IntStr(_)
\* str(n) of a Python int: no grouping, a leading "-" when negative.
IntStr(n) ==
  IF n < 0 THEN <<"-">> \o IntStr(-n)
  ELSE IF n < 10 THEN <<Digit(n)>>
  ELSE IntStr(n \div 10) \o <<Digit(n % 10)>>

\* repr of round(x, 1), x given in tenths: always one fractional digit.
Repr1(t) == IntStr(t \div 10) \o <<".">> \o <<Digit(t % 10)>>

\* repr of round(x, 2), x given in hundredths: the shortest decimal that
\* reads back, so a trailing zero of the fraction is dropped ("10.5", "3.0").
Repr2(h) ==
  IntStr(h \div 100) \o <<".">> \o
    (IF h % 10 = 0 THEN <<Digit((h % 100) \div 10)>>
     ELSE <<Digit((h % 100) \div 10), Digit(h % 10)>>)

UpperCase == <<"A","B","C","D","E","F","G","H","I","J","K","L","M","N","O","P","Q","R","S","T","U","V","W","X","Y","Z">>
LowerCase == <<"a","b","c","d","e","f","g","h","i","j","k","l","m","n","o","p","q","r","s","t","u","v","w","x","y","z">>

LowerChar(c) ==
  IF \E k \in 1..Len(UpperCase) : UpperCase[k] = c
  THEN LowerCase[CHOOSE k \in 1..Len(UpperCase) : UpperCase[k] = c]
  ELSE c

\* str.lower()
Lower(s) == [k \in 1..Len(s) |-> LowerChar(s[k])]

IsLeap(y) == (y % 4 = 0) /\ ((y % 100 # 0) \/ (y % 400 = 0))

DaysInYear(y) == IF IsLeap(y) THEN 366 ELSE 365

DaysInMonth(y, m) ==
  IF m = 2 THEN (IF IsLeap(y) THEN 29 ELSE 28)
  ELSE IF m \in {4, 6, 9, 11} THEN 30 ELSE 31

RECURSIVE YearAndDay(_, _)
\* the year, and the 0-based day in it, n days after 1 January of year y
YearAndDay(y, n) ==
  IF n >= DaysInYear(y) THEN YearAndDay(y + 1, n - DaysInYear(y)) ELSE <<y, n>>

RECURSIVE MonthAndDay(_, _, _)
\* the date of the 0-based day n of year y, counting from the first of month m
MonthAndDay(y, m, n) ==
  IF n >= DaysInMonth(y, m) THEN MonthAndDay(y, m + 1, n - DaysInMonth(y, m))
  ELSE <<y, m, n + 1>>

\* datetime(y, 1, 1) + timedelta(days = n), n >= 0, as <<year, month, day>>:
\* the date whose ordinal is n more.
AddDays(y, n) ==
  LET yd == YearAndDay(y, n) IN MonthAndDay(yd[1], 1, yd[2])

Pad2(n) == IF n < 10 THEN <<"0">> \o IntStr(n) ELSE IntStr(n)

Pad4(n) ==
  IF n < 10 THEN <<"0","0","0">> \o IntStr(n)
  ELSE IF n < 100 THEN <<"0","0">> \o IntStr(n)
  ELSE IF n < 1000 THEN <<"0">> \o IntStr(n)
  ELSE IntStr(n)

\* strftime("%Y-%m-%d")
Strftime(date) == Pad4(date[1]) \o <<"-">> \o Pad2(date[2]) \o <<"-">> \o Pad2(date[3])

(***************************************************************************)
(* csv.writer with the default dialect: delimiter ",", quotechar '"',      *)
(* QUOTE_MINIMAL, doublequote, lineterminator "\r\n".                      *)
(***************************************************************************)
CR == "\r"
LF == "\n"
DQ == "\""
Comma == ","

NeedsQuote(s) == \E k \in 1..Len(s) : s[k] \in {Comma, DQ, CR, LF}

RECURSIVE DoubleQuotes(_)
DoubleQuotes(s) ==
  IF s = <<>> THEN <<>>
  ELSE (IF Head(s) = DQ THEN <<DQ, DQ>> ELSE <<Head(s)>>) \o DoubleQuotes(Tail(s))

CsvField(s) == IF NeedsQuote(s) THEN <<DQ>> \o DoubleQuotes(s) \o <<DQ>> ELSE s

RECURSIVE JoinFields(_)
JoinFields(fields) ==
  IF Len(fields) = 0 THEN <<>>
  ELSE IF Len(fields) = 1 THEN CsvField(fields[1])
  ELSE CsvField(Head(fields)) \o <<Comma>> \o JoinFields(Tail(fields))

\* writer.writerow(fields): the text appended to the file.
Writerow(fields) == JoinFields(fields) \o <<CR, LF>>

(***************************************************************************)
(* The random module.  The generator is seeded once, when the process      *)
(* starts, and every draw is a function of its state; the state is         *)
(* modelled as a number in 0..MaxSeed-1 that each draw advances by one.    *)
(* Over the seeds every element of each list and both ends of each range   *)
(* are drawn.                                                              *)
(***************************************************************************)
Seeds == 0..(MaxSeed - 1)

\* the generator's state after k draws
Draw(r, k) == (r + k) % MaxSeed

\* random.choice(seq)
RandChoice(seq, r) == seq[(r % Len(seq)) + 1]

\* random.randint(a, b): an integer of a..b, both ends included
RandInt(a, b, r) == a + (r * (b - a)) \div (MaxSeed - 1)

\* round(random.uniform(a, b), digits), in units of 10^-digits
RandUniformRounded(a, b, r) == a + (r * (b - a)) \div (MaxSeed - 1)

\* number of draws of one loop iteration
DrawsPerRow == 15

\* (the name as "last, first", as a mutant of FullName)
LastCommaFirst(first, last) == last \o <<",", " ">> \o first

\* name = f"{first} {last}"
FullName(first, last) == first \o <<" ">> \o last

\* hire_date_str of one iteration (lines 45-47)
HireDateStr(random_days) == Strftime(AddDays(StartYear, random_days))

\* the list passed to writer.writerow for row i, with the generator in state r
DataRow(i, r) ==
  LET first == RandChoice(first_names, Draw(r, 0))
      last == RandChoice(last_names, Draw(r, 1))
      name == FullName(first, last)
      department == RandChoice(departments, Draw(r, 2))
      salary == RandInt(SalaryMin, SalaryMax, Draw(r, 3))
      age == RandInt(AgeMin, AgeMax, Draw(r, 4))
      random_days == RandInt(0, MaxRandomDays, Draw(r, 5))
      hire_date_str == HireDateStr(random_days)
      performance == RandUniformRounded(PerformanceMin10, PerformanceMax10, Draw(r, 6))
      location == RandChoice(locations, Draw(r, 7))
      email == Lower(first) \o <<".">> \o Lower(last)
                 \o IntStr(RandInt(EmailSuffixMin, EmailSuffixMax, Draw(r, 8)))
                 \o <<"@","c","o","m","p","a","n","y",".","c","o","m">>
      active == RandChoice(actives, Draw(r, 9))
      campaign == RandChoice(campaigns, Draw(r, 10))
      impressions == RandInt(ImpressionsMin, ImpressionsMax, Draw(r, 11))
      revenue == RandUniformRounded(RevenueMin100, RevenueMax100, Draw(r, 12))
      ctr == RandUniformRounded(CtrMin100, CtrMax100, Draw(r, 13))
      conversion_rate == RandUniformRounded(ConversionMin100, ConversionMax100, Draw(r, 14))
  IN  << IntStr(i), name, department, IntStr(salary), IntStr(age), hire_date_str,
         Repr1(performance), location, email, active,
         campaign, IntStr(impressions), Repr2(revenue), Repr2(ctr),
         Repr2(conversion_rate) >>

(***************************************************************************)
(* State.                                                                  *)
(***************************************************************************)
VARIABLES
  pc,        \* where the process is
  argv,      \* sys.argv[1:], a sequence of texts
  rng,       \* state of the random generator
  filename,  \* generate_large_csv's parameter
  num_rows,  \* generate_large_csv's parameter
  i,         \* the loop variable of generate_large_csv
  csvfile,   \* the file open for writing: a name, or NoFile
  ret,       \* where main goes on when generate_large_csv returns
  disk,      \* name |-> text of the file (kept when full)
  nlines,    \* name |-> rows written to the file by writerow, for every file of the disk
  opened,    \* the names passed to open(), in order (history of the process)
  discarded, \* rows of the file that the last open() of the process truncated (history)
  stdout     \* what the process printed, in order: each line as its kind and
             \* the numbers it carries

vars ==
  <<pc, argv, rng, filename, num_rows, i, csvfile, ret, disk, nlines, opened, discarded, stdout>>

NoFile == <<>>
NoDisk == [f \in {} |-> <<>>]

\* f[k] = v added or replaced
Put(f, k, v) == [x \in DOMAIN f \cup {k} |-> IF x = k THEN v ELSE f[x]]

\* (open(name, 'a'): what the file held is kept, as a mutant of OpenW)
OpenA(files, name, empty) ==
  IF name \in DOMAIN files THEN files ELSE Put(files, name, empty)

\* open(name, 'w'): the file is created empty, or what it held is dropped
OpenW(files, name, empty) == Put(files, name, empty)

\* (range(0, num_rows + 1), as a mutant of FirstRow)
FirstRowZero == 1 - 1

\* range(1, num_rows + 1): the first value of i
FirstRow == 1

\* (range(1, num_rows), as a mutant of LoopContinues)
LoopStopsEarly(k, n) == k < n

\* range(1, num_rows + 1): whether the loop has an iteration for i = k
LoopContinues(k, n) == k <= n

(***************************************************************************)
(* generate_large_csv(filename, num_rows)                                  *)
(***************************************************************************)
\* The percentage printed with "{:.1f}", in tenths: (i / num_rows) * 100
\* rounded to one fractional digit.  The float product is taken as the exact
\* quotient; an exact half rounds to even.
Percent10(k, n) ==
  LET q == (k * 1000) \div n
      rem == (k * 1000) % n
  IN  IF 2 * rem < n THEN q
      ELSE IF 2 * rem > n THEN q + 1
      ELSE IF q % 2 = 0 THEN q ELSE q + 1

\* (num_rows * 200) // 1024 // 1024
SizeMB(n) == ((n * BytesPerRow) \div 1024) \div 1024

\* (the test i % 25000 == 1, as a mutant of ProgressDue)
ProgressDueAfter(k) == k % ProgressEvery = 1

\* whether the row just written is followed by a progress line
ProgressDue(k) == k % ProgressEvery = 0

\* lines 21, 23: the banner, then open(filename, 'w', newline=''), which
\* creates the file or truncates it.
Open ==
  /\ pc = "gen_open"
  /\ stdout' = Append(stdout, <<"generating", num_rows>>)
  /\ opened' = Append(opened, filename)
  /\ csvfile' = filename
  /\ disk' = OpenW(disk, filename, <<>>)
  /\ nlines' = OpenW(nlines, filename, 0)
  /\ discarded' = IF filename \in DOMAIN nlines THEN nlines[filename] ELSE 0
  /\ pc' = "gen_header"
  /\ UNCHANGED <<argv, rng, filename, num_rows, i, ret>>

\* line 23: open() raises OSError; nothing of the disk changes and the
\* exception leaves generate_large_csv and main (main catches ValueError only).
OpenFails ==
  /\ pc = "gen_open"
  /\ stdout' = Append(stdout, <<"generating", num_rows>>)
  /\ opened' = Append(opened, filename)
  /\ pc' = "crashed"
  /\ UNCHANGED <<argv, rng, filename, num_rows, i, csvfile, ret, disk, nlines, discarded>>

\* lines 27-31: the header row; then the loop starts at i = 1.
WriteHeader(full) ==
  /\ pc = "gen_header"
  /\ disk' = IF full THEN [disk EXCEPT ![csvfile] = @ \o Writerow(Header)] ELSE disk
  /\ nlines' = [nlines EXCEPT ![csvfile] = @ + 1]
  /\ i' = FirstRow
  /\ pc' = "gen_loop"
  /\ UNCHANGED <<argv, rng, filename, num_rows, csvfile, ret, opened, discarded, stdout>>

\* lines 36-68: one iteration of the loop: the draws, writer.writerow, and the
\* test of the progress indicator.
WriteRow(full) ==
  /\ pc = "gen_loop"
  /\ LoopContinues(i, num_rows)
  /\ disk' = IF full THEN [disk EXCEPT ![csvfile] = @ \o Writerow(DataRow(i, rng))] ELSE disk
  /\ nlines' = [nlines EXCEPT ![csvfile] = @ + 1]
  /\ rng' = Draw(rng, DrawsPerRow)
  /\ IF ProgressDue(i)
       THEN pc' = "gen_progress" /\ i' = i
       ELSE pc' = "gen_loop" /\ i' = i + 1
  /\ UNCHANGED <<argv, filename, num_rows, csvfile, ret, opened, discarded, stdout>>

\* line 69: the progress line of row i.
Progress ==
  /\ pc = "gen_progress"
  /\ stdout' = Append(stdout, <<"progress", i, Percent10(i, num_rows)>>)
  /\ i' = i + 1
  /\ pc' = "gen_loop"
  /\ UNCHANGED <<argv, rng, filename, num_rows, csvfile, ret, disk, nlines, opened, discarded>>

\* lines 27, 61: a writerow raises OSError (disk full, ...): the with block
\* closes the file and the exception leaves generate_large_csv and main.
WriteFails ==
  /\ \/ pc = "gen_header"
     \/ pc = "gen_loop" /\ LoopContinues(i, num_rows)
  /\ csvfile' = NoFile
  /\ pc' = "crashed"
  /\ UNCHANGED <<argv, rng, filename, num_rows, i, ret, disk, nlines, opened, discarded, stdout>>

\* lines 36, 71-72: the loop is over; the with block closes the file, the two
\* completion lines are printed and the function returns.
Finish ==
  /\ pc = "gen_loop"
  /\ ~LoopContinues(i, num_rows)
  /\ csvfile' = NoFile
  /\ stdout' = stdout \o << <<"complete", num_rows>>, <<"size", SizeMB(num_rows)>> >>
  /\ pc' = ret
  /\ UNCHANGED <<argv, rng, filename, num_rows, i, ret, disk, nlines, opened, discarded>>

(***************************************************************************)
(* Spec: direct calls of generate_large_csv, one process after another.    *)
(***************************************************************************)
\* the destination of the direct calls
Dest == <<"o","u","t",".","c","s","v">>

\* a process that calls generate_large_csv(Dest, n) with the generator seeded s
CallDirect(s, n) ==
  /\ pc' = "gen_open"
  /\ argv' = <<>>
  /\ rng' = s
  /\ filename' = Dest
  /\ num_rows' = n
  /\ i' = 0
  /\ csvfile' = NoFile
  /\ ret' = "done"
  /\ opened' = <<>>
  /\ discarded' = 0
  /\ stdout' = <<>>

Init ==
  /\ pc = "gen_open"
  /\ argv = <<>>
  /\ rng \in Seeds
  /\ filename = Dest
  /\ num_rows \in 0..MaxRows
  /\ i = 0
  /\ csvfile = NoFile
  /\ ret = "done"
  /\ disk = NoDisk
  /\ nlines = NoDisk
  /\ opened = <<>>
  /\ discarded = 0
  /\ stdout = <<>>

\* the process has ended: only the disk is left
Exit ==
  /\ pc \in {"done", "crashed"}
  /\ pc' = "exited"
  /\ argv' = <<>>
  /\ rng' = 0
  /\ filename' = NoFile
  /\ num_rows' = 0
  /\ i' = 0
  /\ csvfile' = NoFile
  /\ ret' = "done"
  /\ opened' = <<>>
  /\ discarded' = 0
  /\ stdout' = <<>>
  /\ UNCHANGED <<disk, nlines>>

\* the next process starts on the disk the last one left
NextProcess ==
  /\ pc = "exited"
  /\ \E s \in Seeds, n \in 0..MaxRows : CallDirect(s, n)
  /\ UNCHANGED <<disk, nlines>>

Next ==
  \/ Open
  \/ OpenFails
  \/ WriteHeader(TRUE)
  \/ WriteRow(TRUE)
  \/ WriteFails
  \/ Finish
  \/ Exit
  \/ NextProcess

Spec == Init /\ [][Next]_vars

(***************************************************************************)
(* main()                                                                  *)
(***************************************************************************)
Whitespace == {" ", "\t", "\n", "\r", "\f"}

RECURSIVE LStrip(_)
LStrip(s) == IF s # <<>> /\ Head(s) \in Whitespace THEN LStrip(Tail(s)) ELSE s

RECURSIVE RStrip(_)
RStrip(s) ==
  IF s # <<>> /\ s[Len(s)] \in Whitespace THEN RStrip(SubSeq(s, 1, Len(s) - 1)) ELSE s

IsDigit(c) == \E d \in 1..Len(Digits) : Digits[d] = c

DigitValue(c) == (CHOOSE d \in 1..Len(Digits) : Digits[d] = c) - 1

\* the text of an int literal without surrounding whitespace and sign
Unsigned(s) ==
  LET t == RStrip(LStrip(s))
  IN  IF t # <<>> /\ t[1] \in {"+", "-"} THEN Tail(t) ELSE t

\* whether int(s) returns: optional whitespace around an optional sign and
\* decimal digits, single underscores allowed between digits.  Otherwise
\* int(s) raises ValueError.
IsInt(s) ==
  LET b == Unsigned(s)
  IN  /\ b # <<>>
      /\ \A k \in 1..Len(b) : IsDigit(b[k]) \/ b[k] = "_"
      /\ IsDigit(b[1]) /\ IsDigit(b[Len(b)])
      /\ \A k \in 1..(Len(b) - 1) : ~(b[k] = "_" /\ b[k + 1] = "_")

RECURSIVE DigitsValue(_, _)
DigitsValue(b, acc) ==
  IF b = <<>> THEN acc
  ELSE IF Head(b) = "_" THEN DigitsValue(Tail(b), acc)
  ELSE DigitsValue(Tail(b), 10 * acc + DigitValue(Head(b)))

\* int(s), for a text with IsInt(s)
IntOf(s) ==
  LET t == RStrip(LStrip(s))
      v == DigitsValue(Unsigned(s), 0)
  IN  IF t[1] = "-" THEN 0 - v ELSE v

\* (num_rows > 1000000, as a mutant of CustomFilename)
CustomFilenameStrict(n) ==
  IF n > MegaRows
  THEN <<"m","e","g","a","_","s","a","m","p","l","e","_">> \o IntStr(n \div 1000) \o <<"k",".","c","s","v">>
  ELSE <<"s","a","m","p","l","e","_">> \o IntStr(n \div 1000) \o <<"k",".","c","s","v">>

\* lines 82-87: the name of the file of a custom generation
CustomFilename(n) ==
  IF n >= MegaRows
  THEN <<"m","e","g","a","_","s","a","m","p","l","e","_">> \o IntStr(n \div 1000) \o <<"k",".","c","s","v">>
  ELSE <<"s","a","m","p","l","e","_">> \o IntStr(n \div 1000) \o <<"k",".","c","s","v">>

\* (num_rows < 0, as a mutant of BelowMinimum)
BelowZero(n) == n < 0

\* line 78: num_rows < 1000
BelowMinimum(n) == n < MinRows

\* the call generate_large_csv(f, n), main going on at r when it returns
Call(f, n, r) ==
  /\ filename' = f
  /\ num_rows' = n
  /\ ret' = r
  /\ pc' = "gen_open"

\* lines 75-77, 91-93: int(sys.argv[1]) raises ValueError
MainInvalid ==
  /\ pc = "main"
  /\ Len(argv) > 0
  /\ ~IsInt(argv[1])
  /\ stdout' = stdout \o << <<"invalid_number">>, <<"usage">> >>
  /\ pc' = "done"
  /\ UNCHANGED <<argv, rng, filename, num_rows, i, csvfile, ret, disk, nlines, opened, discarded>>

\* lines 75-80: fewer rows than the minimum
MainBelowMin ==
  /\ pc = "main"
  /\ Len(argv) > 0
  /\ IsInt(argv[1])
  /\ BelowMinimum(IntOf(argv[1]))
  /\ stdout' = Append(stdout, <<"minimum_rows">>)
  /\ pc' = "done"
  /\ UNCHANGED <<argv, rng, filename, num_rows, i, csvfile, ret, disk, nlines, opened, discarded>>

\* lines 75-89: a custom generation
MainCustom ==
  /\ pc = "main"
  /\ Len(argv) > 0
  /\ IsInt(argv[1])
  /\ ~BelowMinimum(IntOf(argv[1]))
  /\ stdout' = IF IntOf(argv[1]) >= MegaRows
                 THEN stdout \o << <<"mega", IntOf(argv[1])>>, <<"few_minutes">> >>
                 ELSE stdout
  /\ Call(CustomFilename(IntOf(argv[1])), IntOf(argv[1]), "done")
  /\ UNCHANGED <<argv, rng, i, csvfile, disk, nlines, opened, discarded>>

\* (a missing argument rejected with the usage message, as a mutant of MainDefault)
MainDefaultRejects ==
  /\ pc = "main"
  /\ Len(argv) = 0
  /\ stdout' = stdout \o << <<"invalid_number">>, <<"usage">> >>
  /\ pc' = "done"
  /\ UNCHANGED <<argv, rng, filename, num_rows, i, csvfile, ret, disk, nlines, opened, discarded>>

\* lines 94-97: no argument, the first default generation
MainDefault ==
  /\ pc = "main"
  /\ Len(argv) = 0
  /\ stdout' = Append(stdout, <<"quick_test">>)
  /\ Call(<<"s","a","m","p","l","e","_","1","0","k",".","c","s","v">>, DefaultRows1, "default2")
  /\ UNCHANGED <<argv, rng, i, csvfile, disk, nlines, opened, discarded>>

\* (the second generation left out, as a mutant of DefaultSecond)
DefaultSecondSkipped ==
  /\ pc = "default2"
  /\ stdout' = stdout \o << <<"blank">>, <<"mega_test">> >>
  /\ Call(<<"m","e","g","a","_","s","a","m","p","l","e","_","1","0","0","0","k",".","c","s","v">>, DefaultRows3, "guidance")
  /\ UNCHANGED <<argv, rng, i, csvfile, disk, nlines, opened, discarded>>

\* lines 98-101: the second default generation
DefaultSecond ==
  /\ pc = "default2"
  /\ stdout' = stdout \o << <<"blank">>, <<"performance_test">> >>
  /\ Call(<<"s","a","m","p","l","e","_","1","0","0","k",".","c","s","v">>, DefaultRows2, "default3")
  /\ UNCHANGED <<argv, rng, i, csvfile, disk, nlines, opened, discarded>>

\* lines 102-105: the third default generation
DefaultThird ==
  /\ pc = "default3"
  /\ stdout' = stdout \o << <<"blank">>, <<"mega_test">> >>
  /\ Call(<<"m","e","g","a","_","s","a","m","p","l","e","_","1","0","0","0","k",".","c","s","v">>, DefaultRows3, "guidance")
  /\ UNCHANGED <<argv, rng, i, csvfile, disk, nlines, opened, discarded>>

\* lines 106-110: the guidance on custom sizes; main returns
Guidance ==
  /\ pc = "guidance"
  /\ stdout' = stdout \o << <<"blank">>, <<"guidance">>, <<"example", 2000000>>,
                            <<"example", 5000000>> >>
  /\ pc' = "done"
  /\ UNCHANGED <<argv, rng, filename, num_rows, i, csvfile, ret, disk, nlines, opened, discarded>>

\* the command lines of SpecMain: sys.argv[1:] with one argument
Args ==
  { << <<"a","b","c">> >>, << <<>> >>, << <<"1","2",".","5">> >>, << <<"-","5">> >>, << <<"0">> >>,
    << <<"9","9","9">> >>, << <<"1","0","0","0">> >>, << <<" ","1","_","0","0","0"," ">> >>, << <<"2","5","0","0","0">> >>,
    << <<"6","0","0","0","0">> >>, << <<"1","0","0","0","0","0","0">> >> }

\* the process starts with command line a, on an empty directory
Start(a) ==
  /\ pc = "main"
  /\ argv = a
  /\ rng = 0
  /\ filename = NoFile
  /\ num_rows = 0
  /\ i = 0
  /\ csvfile = NoFile
  /\ ret = "done"
  /\ disk = NoDisk
  /\ nlines = NoDisk
  /\ opened = <<>>
  /\ discarded = 0
  /\ stdout = <<>>

(***************************************************************************)
(* SpecMain: main with one argument.                                       *)
(***************************************************************************)
InitMain == \E a \in Args : Start(a)

NextMain ==
  \/ MainInvalid
  \/ MainBelowMin
  \/ MainCustom
  \/ Open
  \/ OpenFails
  \/ WriteHeader(FALSE)
  \/ WriteRow(FALSE)
  \/ Progress
  \/ WriteFails
  \/ Finish

SpecMain == InitMain /\ [][NextMain]_vars

(***************************************************************************)
(* SpecDefault: main without argument.                                     *)
(***************************************************************************)
InitDefault == Start(<<>>)

NextDefault ==
  \/ MainDefault
  \/ DefaultSecond
  \/ DefaultThird
  \/ Guidance
  \/ Open
  \/ OpenFails
  \/ WriteHeader(FALSE)
  \/ WriteRow(FALSE)
  \/ Progress
  \/ WriteFails
  \/ Finish

SpecDefault == InitDefault /\ [][NextDefault]_vars

(***************************************************************************)
(* Reading a file back: lines end with CR LF, fields are split at commas.  *)
(***************************************************************************)
\* the elements of a set of numbers in increasing order
Sorted(S) ==
  LET rank == [p \in S |-> Cardinality({q \in S : q <= p})]
  IN  [j \in 1..Cardinality(S) |-> CHOOSE p \in S : rank[p] = j]

LineEnds(t) == {k \in 2..Len(t) : t[k] = LF /\ t[k - 1] = CR}

NumLines(t) == Cardinality(LineEnds(t))

\* nothing follows the last line terminator
EndsWithTerminator(t) == t = <<>> \/ Len(t) \in LineEnds(t)

\* the lines of a text, each without its terminator
LinesOf(t) ==
  LET ends == Sorted(LineEnds(t))
  IN  [j \in 1..Len(ends) |->
         SubSeq(t, IF j = 1 THEN 1 ELSE ends[j - 1] + 1, ends[j] - 2)]

\* the fields of a line split at its commas
SplitCommas(l) ==
  LET c == Sorted({k \in 1..Len(l) : l[k] = Comma})
      n == Len(c) + 1
  IN  [j \in 1..n |->
         SubSeq(l, IF j = 1 THEN 1 ELSE c[j - 1] + 1,
                   IF j = n THEN Len(l) ELSE c[j] - 1)]

\* the lines of a text, each split at its commas
RecordsOf(t) ==
  LET lines == LinesOf(t) IN [j \in 1..Len(lines) |-> SplitCommas(lines[j])]

Range(seq) == {seq[k] : k \in 1..Len(seq)}

\* a text of decimal digits only, without a leading zero unless it is "0"
IsPlainNumber(s) ==
  /\ s # <<>>
  /\ \A k \in 1..Len(s) : IsDigit(s[k])
  /\ (Len(s) > 1 => s[1] # "0")

\* the number a text of digits denotes
PlainNumber(s) == DigitsValue(s, 0)

\* digits, a point, and one or two digits
IsDecimal(s) ==
  \E p \in 2..(Len(s) - 1) :
    /\ s[p] = "."
    /\ Len(s) - p \in {1, 2}
    /\ IsPlainNumber(SubSeq(s, 1, p - 1))
    /\ \A k \in (p + 1)..Len(s) : IsDigit(s[k])

\* a text "YYYY-MM-DD" of digits and hyphens
IsDateText(s) ==
  /\ Len(s) = 10
  /\ s[5] = "-" /\ s[8] = "-"
  /\ \A k \in {1, 2, 3, 4, 6, 7, 9, 10} : IsDigit(s[k])

DateYear(s) == DigitsValue(SubSeq(s, 1, 4), 0)
DateMonth(s) == DigitsValue(SubSeq(s, 6, 7), 0)
DateDay(s) == DigitsValue(SubSeq(s, 9, 10), 0)

\* the Gregorian calendar of the years 2015..2023: 2016 and 2020 are leap years
CalendarLeap(y) == y \in {2016, 2020}

CalendarMonthDays(y, m) ==
  <<31, IF CalendarLeap(y) THEN 29 ELSE 28, 31, 30, 31, 30, 31, 31, 30, 31, 30, 31>>[m]

\* days before the first of month m in a common year
DaysBeforeMonth == <<0, 31, 59, 90, 120, 151, 181, 212, 243, 273, 304, 334>>

IsCalendarDate(y, m, d) ==
  /\ y \in 2015..2023
  /\ m \in 1..12
  /\ d \in 1..CalendarMonthDays(y, m)

\* days from 2015-01-01 to the date
DaysSince2015(y, m, d) ==
  365 * (y - 2015) + Cardinality({yy \in 2015..(y - 1) : CalendarLeap(yy)})
    + DaysBeforeMonth[m] + (IF CalendarLeap(y) /\ m > 2 THEN 1 ELSE 0) + (d - 1)

\* a file is being written, or generate_large_csv has just returned
FileInHand == csvfile # NoFile \/ pc = "done"

\* the text of the file generate_large_csv writes
Text == disk[filename]

\* the data lines of a file of n lines: every line but the first
DataLines(n) == 2..n

(***************************************************************************)
(* Claims checked under Spec.                                              *)
(***************************************************************************)
\* Spec never reaches the progress line: its row counts are below ProgressEvery.
SpecHasNoProgress == pc # "gen_progress"

\* In every state the number of rows written to a file is the number of line
\* terminators of its text: the row counts of SpecMain and SpecDefault stand
\* for the lines of the files.
LineCountAgrees ==
  /\ DOMAIN nlines = DOMAIN disk
  /\ \A f \in DOMAIN disk : NumLines(disk[f]) = nlines[f] /\ EndsWithTerminator(disk[f])

\* C1: for every row count N >= 1, when generate_large_csv(filename, N) has run
\* to completion the file holds exactly N + 1 lines: the header line, followed
\* by exactly N data lines.
C1_LineCount ==
  (pc = "done" /\ num_rows >= 1) =>
    LET recs == RecordsOf(Text)
    IN  /\ EndsWithTerminator(Text)
        /\ NumLines(Text) = num_rows + 1
        /\ nlines[filename] = num_rows + 1
        /\ Len(recs) = num_rows + 1
        /\ recs[1] = Header
        /\ \A j \in DataLines(Len(recs)) : IsPlainNumber(recs[j][1])

C1_Witness ==
  /\ pc = "done"
  /\ num_rows = MaxRows
  /\ NumLines(Text) = MaxRows + 1

\* C2: in every state of a generation run the data rows written so far carry
\* the sequence numbers 1, 2, ..., k in that order, without gap or repeat: the
\* ID of the j-th data row is j; while the loop runs the rows written are those
\* before i, and on completion the first data row has ID 1 and the last ID N.
C2_SequenceNumbers ==
  FileInHand =>
    LET recs == RecordsOf(Text)
    IN  /\ \A j \in DataLines(Len(recs)) :
             /\ IsPlainNumber(recs[j][1])
             /\ PlainNumber(recs[j][1]) = j - 1
        /\ (pc = "gen_loop" => Len(recs) - 1 = i - 1)
        /\ (pc = "done" /\ num_rows >= 1 =>
              /\ recs[2][1] = <<"1">>
              /\ PlainNumber(recs[Len(recs)][1]) = num_rows)

C2_Witness ==
  /\ pc = "gen_loop"
  /\ i = 3
  /\ LET recs == RecordsOf(Text)
     IN  Len(recs) = 3 /\ recs[2][1] = <<"1">> /\ recs[3][1] = <<"2">>

\* no value of a list holds a comma, a quote or a line break
DomainsArePlain ==
  \A list \in {departments, locations, first_names, last_names, campaigns, actives, Header} :
    \A v \in Range(list) : \A k \in 1..Len(v) : v[k] \notin {Comma, DQ, CR, LF}

\* the fields of a data line are, in order: ID, Name, Department, Salary, Age,
\* Start Date, Performance Score, Location, Email, Active, Campaign,
\* Impressions, Revenue, CTR, Conversion Rate
IsDataRecord(f) ==
  /\ IsPlainNumber(f[1])
  /\ \E p \in 1..Len(f[2]) :
       /\ f[2][p] = " "
       /\ SubSeq(f[2], 1, p - 1) \in Range(first_names)
       /\ SubSeq(f[2], p + 1, Len(f[2])) \in Range(last_names)
  /\ f[3] \in Range(departments)
  /\ IsPlainNumber(f[4]) /\ PlainNumber(f[4]) \in SalaryMin..SalaryMax
  /\ IsPlainNumber(f[5]) /\ PlainNumber(f[5]) \in AgeMin..AgeMax
  /\ IsDateText(f[6])
  /\ IsDecimal(f[7])
  /\ f[8] \in Range(locations)
  /\ \E p \in 1..Len(f[9]) : f[9][p] = "@"
  /\ f[10] \in Range(actives)
  /\ f[11] \in Range(campaigns)
  /\ IsPlainNumber(f[12]) /\ PlainNumber(f[12]) \in ImpressionsMin..ImpressionsMax
  /\ IsDecimal(f[13])
  /\ IsDecimal(f[14])
  /\ IsDecimal(f[15])

\* C3: the header line and every data line have exactly 15 comma-separated
\* fields in the same fixed order; no value of a field's domain holds a comma,
\* a quote or a line break, so a line split at its commas gives 15 fields.
C3_FifteenFields ==
  FileInHand =>
    LET lines == LinesOf(Text)
        recs == RecordsOf(Text)
    IN  /\ DomainsArePlain
        /\ \A j \in 1..Len(lines) :
             /\ \A k \in 1..Len(lines[j]) : lines[j][k] \notin {DQ, CR, LF}
             /\ Len(recs[j]) = 15
             /\ (j = 1 => recs[j] = Header)
             /\ (j > 1 => IsDataRecord(recs[j]))

C3_Witness ==
  /\ pc = "done"
  /\ num_rows = 2
  /\ LET recs == RecordsOf(Text)
     IN  /\ Len(recs) = 3
         /\ \A j \in 1..3 : Len(recs[j]) = 15
         /\ recs[3][3] = <<"C","u","s","t","o","m","e","r"," ","S","e","r","v","i","c","e">>

\* the number of lines of a text and the numbers of fields of its lines
Shape(t) == <<NumLines(t), {Len(r) : r \in Range(RecordsOf(t))}>>

\* C8: generate_large_csv truncates what the destination held: whatever the
\* file held before (discarded rows, the output of an earlier run with any row
\* count), a completed run with row count N leaves exactly N + 1 lines of 15
\* fields, the header first, so two completed runs with the same N leave files
\* with the same row and column counts.
C8_Truncates ==
  /\ (pc = "gen_header" => Text = <<>> /\ nlines[filename] = 0)
  /\ (pc = "done" =>
        LET recs == RecordsOf(Text)
        IN  /\ Shape(Text) = <<num_rows + 1, {15}>>
            /\ EndsWithTerminator(Text)
            /\ recs[1] = Header
            /\ \A j \in DataLines(Len(recs)) : recs[j] # Header)

C8_Witness ==
  /\ pc = "done"
  /\ num_rows = 1
  /\ discarded = MaxRows + 1
  /\ Shape(Text) = <<2, {15}>>

\* C10: the start date of every data row is 2015-01-01 plus a day offset of
\* 0..2920, so it is a calendar date from 2015-01-01 to 2022-12-31 and none
\* falls in 2023 or later.
C10_StartDates ==
  FileInHand =>
    LET recs == RecordsOf(Text)
    IN  \A j \in DataLines(Len(recs)) :
          LET s == recs[j][6]
              y == DateYear(s)
              m == DateMonth(s)
              d == DateDay(s)
          IN  /\ IsDateText(s)
              /\ IsCalendarDate(y, m, d)
              /\ y \in 2015..2022
              /\ DaysSince2015(y, m, d) \in 0..(365 * 8)

C10_Witness ==
  /\ pc = "done"
  /\ LET recs == RecordsOf(Text)
     IN  /\ \E j \in DataLines(Len(recs)) : recs[j][6] = <<"2","0","2","2","-","1","2","-","3","0">>
         /\ \E j \in DataLines(Len(recs)) : recs[j][6] = <<"2","0","1","5","-","0","1","-","0","1">>

(***************************************************************************)
(* Claims checked under SpecMain: main with one argument.                  *)
(***************************************************************************)
\* the kinds of the lines printed so far
Printed == {stdout[k][1] : k \in 1..Len(stdout)}

\* the command lines whose argument is no integer
InvalidArgs == {a \in Args : ~IsInt(a[1])}

\* the command lines whose argument is an integer, with the integer
ArgValue == [a \in Args \ InvalidArgs |-> IntOf(a[1])]

\* the command lines whose argument is an integer below the minimum
LowArgs == {a \in DOMAIN ArgValue : ArgValue[a] < 1000}

\* the argument is no integer, or an integer below the minimum
Rejected == argv \in InvalidArgs \cup LowArgs

\* the argument is an integer of at least the minimum
Accepted == argv \in DOMAIN ArgValue /\ ArgValue[argv] >= 1000

\* C4: with one argument that is not parseable as an integer, or parses to an
\* integer below 1000 (0 and the negative numbers included), the generator is
\* never called and no file is created or opened; the usage message is printed
\* in the first case, the minimum-rows warning in the second, and main returns.
C4_RejectsWithoutFile ==
  Rejected =>
    /\ pc \in {"main", "done"}
    /\ opened = <<>>
    /\ DOMAIN nlines = {}
    /\ filename = NoFile /\ csvfile = NoFile
    /\ (pc = "main" => stdout = <<>>)
    /\ (pc = "done" =>
          stdout = IF argv \in LowArgs THEN << <<"minimum_rows">> >>
                   ELSE << <<"invalid_number">>, <<"usage">> >>)
    /\ (argv[1] \in { <<"a","b","c">>, <<"1","2",".","5">>, <<>> } /\ pc = "done" => "usage" \in Printed)
    /\ (argv[1] \in { <<"0">>, <<"-","5">>, <<"9","9","9">> } /\ pc = "done" => "minimum_rows" \in Printed)

C4_Witness ==
  /\ pc = "done"
  /\ Rejected
  /\ argv \in LowArgs
  /\ ArgValue[argv] < 0
  /\ stdout = << <<"minimum_rows">> >>

\* the file name the claim gives for a custom generation of n rows
ExpectedFilename(n) ==
  (IF n >= 1000000 THEN <<"m","e","g","a","_","s","a","m","p","l","e","_">> ELSE <<"s","a","m","p","l","e","_">>)
    \o IntStr(n \div 1000) \o <<"k",".","c","s","v">>

\* the example of the claim: main names the file of 1,500,000 rows
\* mega_sample_1500k.csv
NameOfExample == CustomFilename(1500000) = <<"m","e","g","a","_","s","a","m","p","l","e","_","1","5","0","0","k",".","c","s","v">>

\* C6: with one integer argument N >= 1000 the generator is called exactly once,
\* with row count N and the file name mega_sample_<N div 1000>k.csv when
\* N >= 1,000,000 and sample_<N div 1000>k.csv when N < 1,000,000; exactly one
\* file is produced and it holds N + 1 lines.  (The name is compared at the
\* call and at the return; in between the one file of the disk is filename.)
C6_CustomGeneration ==
  (pc # "main" /\ Accepted) =>
    /\ NameOfExample
    /\ num_rows = ArgValue[argv]
    /\ opened \in {<<>>, <<filename>>}
    /\ DOMAIN nlines \subseteq {filename}
    /\ (pc \in {"gen_open", "gen_header", "done"} =>
          LET n == ArgValue[argv]
          IN  /\ filename = ExpectedFilename(n)
              /\ (n = 1000000 => filename = <<"m","e","g","a","_","s","a","m","p","l","e","_","1","0","0","0","k",".","c","s","v">>)
              /\ (n = 60000 => filename = <<"s","a","m","p","l","e","_","6","0","k",".","c","s","v">>)
              /\ (n = 1000 => filename = <<"s","a","m","p","l","e","_","1","k",".","c","s","v">>))
    /\ (pc = "done" =>
          /\ opened = <<filename>>
          /\ DOMAIN nlines = {filename}
          /\ nlines[filename] = num_rows + 1
          /\ Cardinality({k \in 1..Len(stdout) : stdout[k][1] = "generating"}) = 1
          /\ Cardinality({k \in 1..Len(stdout) : stdout[k] = <<"generating", num_rows>>}) = 1)

C6_Witness ==
  /\ pc = "done"
  /\ Accepted
  /\ opened = <<filename>>
  /\ nlines[filename] = ArgValue[argv] + 1

\* the data rows written to the file of the current generation
RowsWritten ==
  IF filename \in DOMAIN nlines /\ nlines[filename] >= 1 THEN nlines[filename] - 1 ELSE 0

\* the progress lines due so far: one for each multiple of 25000 among the rows
\* written, but for the row just written whose progress line is still to come
ProgressLinesDue ==
  IF pc = "gen_progress" THEN (RowsWritten \div 25000) - 1 ELSE RowsWritten \div 25000

\* the place of the banner of the generation in the output of a custom run
BannerAt == IF num_rows >= 1000000 THEN 3 ELSE 1

\* progress line j of the generation, at place k of the output, is right: it
\* carries the count j * 25000 and the percentage count/N*100 (in tenths, to
\* the nearest tenth), at most 100 and more than the line before it
ProgressLineRight(j, k) ==
  LET line == stdout[k]
  IN  /\ line[1] = "progress"
      /\ line[2] = j * 25000
      /\ line[2] <= RowsWritten
      /\ 2 * (line[3] * num_rows - line[2] * 1000) <= num_rows
      /\ 2 * (line[2] * 1000 - line[3] * num_rows) <= num_rows
      /\ line[3] <= 1000
      /\ (j > 1 => stdout[k - 1][1] = "progress" /\ stdout[k - 1][3] < line[3])

\* C9: during generate_large_csv with row count N a progress line is printed
\* exactly for each row i of 1..N that is a multiple of 25,000, after row i is
\* written and before row i + 1, with the count i and the percentage i/N*100,
\* which never exceeds 100 and grows from one line to the next; the completion
\* lines, with N and the size N*200 div 1024 div 1024, are printed exactly once,
\* after all N rows and all progress lines, and never when a write fails.
\* (In every state the output has exactly the lines due and the last progress
\* line is right; when the function has returned every line is compared.)
C9_ProgressAndCompletion ==
  opened # <<>> =>
    LET due == ProgressLinesDue
        b == BannerAt
    IN  /\ stdout[b] = <<"generating", num_rows>>
        /\ Len(stdout) = b + due + (IF pc = "done" THEN 2 ELSE 0)
        /\ (due >= 1 => ProgressLineRight(due, b + due))
        /\ (pc = "gen_progress" => RowsWritten = i /\ i % 25000 = 0)
        /\ (pc = "gen_loop" => RowsWritten = i - 1)
        /\ (pc = "done" =>
              /\ RowsWritten = num_rows
              /\ due = num_rows \div 25000
              /\ \A j \in 1..due : ProgressLineRight(j, b + j)
              /\ stdout[b + due + 1] = <<"complete", num_rows>>
              /\ stdout[b + due + 2] = <<"size", ((num_rows * 200) \div 1024) \div 1024>>
              /\ (num_rows = 1000000 => stdout[b + due + 2] = <<"size", 190>>))
        /\ (pc = "crashed" => RowsWritten < num_rows \/ filename \notin DOMAIN nlines)

C9_Witness ==
  /\ pc = "done"
  /\ ProgressLinesDue >= 1
  /\ stdout[BannerAt + 1][1] = "progress"
  /\ stdout[Len(stdout)][1] = "size"

(***************************************************************************)
(* Claims checked under SpecDefault: main without argument.                *)
(***************************************************************************)
\* the three default generations, in order
Defaults ==
  << << <<"s","a","m","p","l","e","_","1","0","k",".","c","s","v">>, 10000 >>,
     << <<"s","a","m","p","l","e","_","1","0","0","k",".","c","s","v">>, 100000 >>,
     << <<"m","e","g","a","_","s","a","m","p","l","e","_","1","0","0","0","k",".","c","s","v">>, 1000000 >> >>

\* default generation k has completed: its file holds the header and all rows
DefaultComplete(k) ==
  /\ Defaults[k][1] \in DOMAIN nlines
  /\ nlines[Defaults[k][1]] = Defaults[k][2] + 1
  /\ Len(opened) >= k

\* the default generation the process is in, when it is in one
DefaultInHand == IF pc = "gen_open" THEN Len(opened) + 1 ELSE Len(opened)

\* C5 as stated: invoked without a row-count argument, main opens and writes
\* no file.
C5_Original == Len(argv) = 0 => (opened = <<>> /\ DOMAIN nlines = {})

\* the process is inside the loop of generate_large_csv, or a write has failed
InLoop == pc \in {"gen_loop", "gen_progress", "crashed"}

\* the last line printed
LastPrinted == stdout[Len(stdout)][1]

\* C5 as amended: invoked without a row-count argument, main rejects nothing:
\* it prints no usage message and no minimum-rows warning, its first act is the
\* call of the generator for sample_10k.csv, and the files it opens and writes
\* are the three default files and no other.  (The whole output is read where
\* main or the head of generate_large_csv has printed; inside the loop the one
\* line that may have been added is the last.)
C5_MissingArgumentRunsDefaults ==
  Len(argv) = 0 =>
    /\ (~InLoop => Printed \cap {"invalid_number", "usage", "minimum_rows"} = {})
    /\ (InLoop => LastPrinted \in {"generating", "progress"})
    /\ (pc # "main" => stdout[1] = <<"quick_test">> /\ filename # NoFile)
    /\ (pc \notin {"main", "gen_open"} => opened # <<>> /\ opened[1] = <<"s","a","m","p","l","e","_","1","0","k",".","c","s","v">>)
    /\ Range(opened) \subseteq {Defaults[k][1] : k \in 1..3}
    /\ DOMAIN nlines \subseteq Range(opened)
    /\ (pc = "done" => \A k \in 1..3 : Defaults[k][1] \in DOMAIN nlines /\ nlines[Defaults[k][1]] >= 1)

C5_Witness ==
  /\ Len(argv) = 0
  /\ opened = << <<"s","a","m","p","l","e","_","1","0","k",".","c","s","v">> >>
  /\ <<"s","a","m","p","l","e","_","1","0","k",".","c","s","v">> \in DOMAIN nlines
  /\ nlines[ <<"s","a","m","p","l","e","_","1","0","k",".","c","s","v">> ] = 2

\* C7: invoked without argument, main runs exactly three generations, in this
\* order and each completed before the next starts: sample_10k.csv with 10,000
\* rows, sample_100k.csv with 100,000 rows, mega_sample_1000k.csv with
\* 1,000,000 rows; the guidance on custom sizes is printed only after the third
\* has completed.  (The whole output is read where main or the head of
\* generate_large_csv has printed; inside the loop the one line that may have
\* been added is the last.)
C7_DefaultSequence ==
  Len(argv) = 0 =>
    /\ Len(opened) <= 3
    /\ \A k \in 1..Len(opened) : opened[k] = Defaults[k][1]
    /\ (pc \in {"gen_open", "gen_header", "gen_loop", "gen_progress"} =>
          /\ DefaultInHand \in 1..3
          /\ filename = Defaults[DefaultInHand][1]
          /\ num_rows = Defaults[DefaultInHand][2]
          /\ \A k \in 1..(DefaultInHand - 1) : DefaultComplete(k))
    /\ (pc \in {"gen_open", "gen_header"} =>
          Cardinality({k \in 1..Len(stdout) : stdout[k][1] = "complete"}) = DefaultInHand - 1)
    /\ (pc = "default2" => DefaultComplete(1) /\ Len(opened) = 1)
    /\ (pc = "default3" => DefaultComplete(1) /\ DefaultComplete(2) /\ Len(opened) = 2)
    /\ (InLoop => LastPrinted \in {"generating", "progress"})
    /\ (~InLoop /\ Printed \cap {"guidance", "example"} # {} => pc = "done")
    /\ (pc \in {"guidance", "done"} =>
          /\ \A k \in 1..3 : DefaultComplete(k)
          /\ Len(opened) = 3
          /\ {stdout[k] : k \in {j \in 1..Len(stdout) : stdout[j][1] = "complete"}}
               = {<<"complete", Defaults[k][2]>> : k \in 1..3}
          /\ Cardinality({k \in 1..Len(stdout) : stdout[k][1] = "generating"}) = 3)
    /\ (pc = "done" => stdout[Len(stdout) - 2] = <<"guidance">>)

C7_Witness ==
  /\ Len(argv) = 0
  /\ pc = "gen_loop"
  /\ Len(opened) = 2
  /\ i = 2
  /\ DefaultComplete(1)
  /\ filename = <<"s","a","m","p","l","e","_","1","0","0","k",".","c","s","v">>

====
